---- MODULE Spec2Model ----
(***************************************************************************)
(* The store schema of store/models.py as a relational store under the     *)
(* persistence operations the schema's declarations give it: insert and    *)
(* update (save) and delete, with NOT NULL and FOREIGN KEY constraints,    *)
(* field defaults, auto timestamps, the decimal column of Product.price    *)
(* and on_delete=CASCADE collection.                                       *)
(*                                                                         *)
(* Columns that carry free text only (name, title, description, image,     *)
(* customer_name, customer_email, address, city, email, phone_number) are  *)
(* not part of the state: no operation below reads them.                   *)
(***************************************************************************)
EXTENDS Integers, FiniteSets

VARIABLES users, categories, products, orders, addresses, sellers,
          sellerProducts, now, result

vars == <<users, categories, products, orders, addresses, sellers,
          sellerProducts, now, result>>

store == <<users, categories, products, orders, addresses, sellers,
           sellerProducts>>

(* ------------------------------ bounds -------------------------------- *)
MaxUser == 1
MaxCategory == 3
MaxProduct == 1
MaxAddress == 1
MaxOrder == 2
MaxSeller == 1
MaxSellerProduct == 1
MaxTime == 3
MaxRow == 1

UserIds == 1..MaxUser
CategoryIds == 1..MaxCategory
ProductIds == 1..MaxProduct
AddressIds == 1..MaxAddress
OrderIds == 1..MaxOrder
SellerIds == 1..MaxSeller
SellerProductIds == 1..MaxSellerProduct

(* The NULL of a foreign-key column; primary keys are positive. *)
NULL == 0

(* An optional argument: {} when the caller leaves the field out, {v}     *)
(* when the caller gives v.                                               *)
ValueOr(opt, default) == IF opt = {} THEN default ELSE CHOOSE v \in opt : TRUE

(* ------------------------- results of a call -------------------------- *)
(* What the caller gets back: the error and the column it names, or, for *)
(* a delete, how many rows of each table went.                            *)
NoRows ==
    [users |-> 0, categories |-> 0, products |-> 0, orders |-> 0,
     addresses |-> 0, sellers |-> 0, sellerProducts |-> 0]

Outcome(status, column) ==
    [status |-> status, column |-> column, deleted |-> NoRows]

Ok == Outcome("ok", "")
NotNullError(column) ==
    Outcome("IntegrityError: NOT NULL constraint failed", column)
ForeignKeyError(column) ==
    Outcome("IntegrityError: FOREIGN KEY constraint failed", column)
DecimalError(column) == Outcome("InvalidOperation", column)

(* The first error of a list of checks, in order; Ok when none fails. *)
FirstError(a, b, c) == IF a # Ok THEN a ELSE IF b # Ok THEN b ELSE c

(* A ForeignKey column without null=True: NOT NULL, and the row it names  *)
(* must be in the referenced table.                                       *)
ForeignKeyCheck(column, value, targets) ==
    IF value = NULL THEN NotNullError(column)
    ELSE IF value \notin targets THEN ForeignKeyError(column)
    ELSE Ok

(* --------------------------- Product.price ---------------------------- *)
(* A decimal is coefficient c and e digits after the point: c * 10^-e.    *)
price_max_digits == 4
price_decimal_places == 2

RECURSIVE Pow10(_)
Pow10(n) == IF n = 0 THEN 1 ELSE 10 * Pow10(n - 1)

RECURSIVE Digits(_)
Digits(n) == IF n < 10 THEN 1 ELSE 1 + Digits(n \div 10)

Abs(n) == IF n < 0 THEN -n ELSE n

(* Round n / d (n >= 0) to the nearest integer, ties to the even one. *)
RoundHalfEven(n, d) ==
    LET q == n \div d
        r == n % d
    IN  IF 2 * r > d \/ (2 * r = d /\ q % 2 = 1) THEN q + 1 ELSE q

(* The coefficient of value at `places` digits after the point. *)
Quantize(value, places) ==
    IF value.e <= places
    THEN value.c * Pow10(places - value.e)
    ELSE LET m == RoundHalfEven(Abs(value.c), Pow10(value.e - places))
         IN  IF value.c < 0 THEN -m ELSE m

(* The column accepts a value when, at decimal_places digits after the    *)
(* point, it has at most max_digits digits; the sign is not a digit.      *)
MutPriceFits(value) ==
    Digits(Abs(Quantize(value, price_decimal_places)))
        <= price_max_digits + 1
PriceFits(value) ==
    Digits(Abs(Quantize(value, price_decimal_places))) <= price_max_digits

PriceCheck(value) ==
    IF PriceFits(value) THEN Ok ELSE DecimalError("store_product.price")

(* What the column holds (hundredths), and what a read gives back. *)
PriceToDb(value) == Quantize(value, price_decimal_places)
PriceFromDb(stored) == [c |-> stored, e |-> price_decimal_places]

(* ------------------------------ defaults ------------------------------ *)
MutAuthorDefault == ""
AuthorDefault == "admin"
InStockDefault == TRUE
IsActiveDefault == TRUE
SellerIsActiveDefault == TRUE

(* --------------------------- auto timestamps -------------------------- *)
(* auto_now_add: the clock on insert, the row's own value on update.      *)
MutAutoNowAdd(add, old, t) == t
AutoNowAdd(add, old, t) == IF add THEN t ELSE old
(* auto_now: the clock on every save. *)
AutoNow(add, old, t) == t

(* --------------------- per-column constraint checks ------------------- *)
(* Category.parent references Category itself: a row may name itself.     *)
MutCategoryParentCheck(id, parent) ==
    IF parent = NULL THEN Ok
    ELSE ForeignKeyCheck("store_category.parent_id", parent,
                         DOMAIN categories \cup {id})
CategoryParentCheck(id, parent) ==
    ForeignKeyCheck("store_category.parent_id", parent,
                    DOMAIN categories \cup {id})
ProductCategoryCheck(cat) ==
    ForeignKeyCheck("store_product.category_id", cat, DOMAIN categories)
ProductCreatedByCheck(usr) ==
    ForeignKeyCheck("store_product.created_by_id", usr, users)
MutOrderShippingAddressCheck(addr) ==
    IF addr = NULL THEN NotNullError("store_order.shipping_address_id")
    ELSE Ok
OrderShippingAddressCheck(addr) ==
    ForeignKeyCheck("store_order.shipping_address_id", addr, addresses)
SellerProductSellerCheck(s) ==
    ForeignKeyCheck("store_sellerproduct.seller_id", s, DOMAIN sellers)
SellerProductProductCheck(p) ==
    ForeignKeyCheck("store_sellerproduct.product_id", p, DOMAIN products)

(* -------------------------- cascade collection ------------------------ *)
Nothing ==
    [users |-> {}, categories |-> {}, products |-> {}, orders |-> {},
     addresses |-> {}, sellers |-> {}, sellerProducts |-> {}]

(* Category.parent, on_delete=CASCADE: the categories in cats and every   *)
(* category that has one of them as parent, transitively.                 *)
MutCategoriesReferencing(cats) ==
    cats \cup {c \in DOMAIN categories : categories[c].parent \in cats}
RECURSIVE CategoriesReferencing(_)
CategoriesReferencing(cats) ==
    LET more == cats \cup
                {c \in DOMAIN categories : categories[c].parent \in cats}
    IN  IF more = cats THEN cats ELSE CategoriesReferencing(more)

(* Product.category and Product.created_by, on_delete=CASCADE. *)
MutProductsReferencing(cats, usrs) ==
    {p \in DOMAIN products : products[p].created_by \in usrs}
ProductsReferencing(cats, usrs) ==
    {p \in DOMAIN products :
        products[p].category \in cats \/ products[p].created_by \in usrs}

(* Order.shipping_address, on_delete=CASCADE. *)
MutOrdersReferencing(addrs) == {}
OrdersReferencing(addrs) ==
    {o \in DOMAIN orders : orders[o].shipping_address \in addrs}

(* SellerProduct.seller and SellerProduct.product, on_delete=CASCADE. *)
MutSellerProductsReferencing(sels, prods) ==
    {sp \in DOMAIN sellerProducts : sellerProducts[sp].seller \in sels}
SellerProductsReferencing(sels, prods) ==
    {sp \in DOMAIN sellerProducts :
        sellerProducts[sp].seller \in sels
        \/ sellerProducts[sp].product \in prods}

(* The rows a delete of the rows in seed removes: the seed and every row  *)
(* that references a removed row through a CASCADE foreign key.           *)
Collect(seed) ==
    LET cats == CategoriesReferencing(seed.categories)
        prods == seed.products \cup ProductsReferencing(cats, seed.users)
    IN  [users |-> seed.users,
         categories |-> cats,
         products |-> prods,
         orders |-> seed.orders \cup OrdersReferencing(seed.addresses),
         addresses |-> seed.addresses,
         sellers |-> seed.sellers,
         sellerProducts |-> seed.sellerProducts
             \cup SellerProductsReferencing(seed.sellers, prods)]

CollectUser(u) == Collect([Nothing EXCEPT !.users = {u}])
CollectCategory(c) == Collect([Nothing EXCEPT !.categories = {c}])
CollectProduct(p) == Collect([Nothing EXCEPT !.products = {p}])
CollectShippingAddress(a) == Collect([Nothing EXCEPT !.addresses = {a}])
MutCollectOrder(o) ==
    Collect([Nothing EXCEPT !.orders = {o},
                            !.addresses = {orders[o].shipping_address}])
CollectOrder(o) == Collect([Nothing EXCEPT !.orders = {o}])
CollectSeller(s) == Collect([Nothing EXCEPT !.sellers = {s}])
CollectSellerProduct(sp) == Collect([Nothing EXCEPT !.sellerProducts = {sp}])

Remove(table, ids) == [x \in DOMAIN table \ ids |-> table[x]]
Put(table, id, row) ==
    [x \in DOMAIN table \cup {id} |-> IF x = id THEN row ELSE table[x]]

(* Delete every collected row, in one step, and count them. *)
Delete(col) ==
    /\ users' = users \ col.users
    /\ categories' = Remove(categories, col.categories)
    /\ products' = Remove(products, col.products)
    /\ orders' = Remove(orders, col.orders)
    /\ addresses' = addresses \ col.addresses
    /\ sellers' = Remove(sellers, col.sellers)
    /\ sellerProducts' = Remove(sellerProducts, col.sellerProducts)
    /\ result' = [status |-> "ok", column |-> "",
                  deleted |-> [t \in DOMAIN col |-> Cardinality(col[t])]]
    /\ UNCHANGED now

(* A save the store refuses: the error goes to the caller, no row changes. *)
Refuse(err) ==
    /\ result' = err
    /\ UNCHANGED <<store, now>>

(* ------------------------------- Init --------------------------------- *)
EmptyTable == [x \in {} |-> NULL]

Init ==
    /\ users = {}
    /\ categories = EmptyTable
    /\ products = EmptyTable
    /\ orders = EmptyTable
    /\ addresses = {}
    /\ sellers = EmptyTable
    /\ sellerProducts = EmptyTable
    /\ now = 0
    /\ result = Ok

(* The clock the auto timestamps read. *)
Tick ==
    /\ now < MaxTime
    /\ now' = now + 1
    /\ UNCHANGED <<store, result>>

(* -------------------------------- User -------------------------------- *)
CreateUser(u) ==
    /\ u \notin users
    /\ users' = users \cup {u}
    /\ result' = Ok
    /\ UNCHANGED <<categories, products, orders, addresses, sellers,
                   sellerProducts, now>>

DeleteUser(u) ==
    /\ u \in users
    /\ Delete(CollectUser(u))

(* ------------------------------ Category ------------------------------ *)
SaveCategory(id, parent) ==
    LET err == CategoryParentCheck(id, parent)
    IN  IF err # Ok THEN Refuse(err)
        ELSE /\ categories' = Put(categories, id, [parent |-> parent])
             /\ result' = Ok
             /\ UNCHANGED <<users, products, orders, addresses, sellers,
                            sellerProducts, now>>

CreateCategory(id, parent) ==
    /\ id \notin DOMAIN categories
    /\ SaveCategory(id, parent)

UpdateCategory(id, parent) ==
    /\ id \in DOMAIN categories
    /\ SaveCategory(id, parent)

DeleteCategory(id) ==
    /\ id \in DOMAIN categories
    /\ Delete(CollectCategory(id))

(* ------------------------------ Product ------------------------------- *)
SaveProduct(id, row) ==
    LET add == id \notin DOMAIN products
        err == FirstError(PriceCheck(row.price),
                          ProductCategoryCheck(row.category),
                          ProductCreatedByCheck(row.created_by))
        old == IF add THEN now ELSE products[id].created
    IN  IF err # Ok THEN Refuse(err)
        ELSE /\ products' = Put(products, id,
                    [category |-> row.category,
                     created_by |-> row.created_by,
                     author |-> row.author,
                     price |-> PriceToDb(row.price),
                     in_stock |-> row.in_stock,
                     is_active |-> row.is_active,
                     created |-> AutoNowAdd(add, old, now),
                     updated |-> AutoNow(add, old, now)])
             /\ result' = Ok
             /\ UNCHANGED <<users, categories, orders, addresses, sellers,
                            sellerProducts, now>>

(* Product(...).save(): fields the caller leaves out take their default. *)
CreateProduct(id, cat, usr, author, price, in_stock, is_active) ==
    /\ id \notin DOMAIN products
    /\ SaveProduct(id,
           [category |-> cat, created_by |-> usr,
            author |-> ValueOr(author, AuthorDefault),
            price |-> price,
            in_stock |-> ValueOr(in_stock, InStockDefault),
            is_active |-> ValueOr(is_active, IsActiveDefault)])

(* A loaded row, some fields assigned, saved: fields the caller leaves    *)
(* out keep the value the row has.                                        *)
UpdateProduct(id, cat, usr, author, price, in_stock, is_active) ==
    /\ id \in DOMAIN products
    /\ SaveProduct(id,
           [category |-> cat, created_by |-> usr,
            author |-> ValueOr(author, products[id].author),
            price |-> ValueOr(price, PriceFromDb(products[id].price)),
            in_stock |-> ValueOr(in_stock, products[id].in_stock),
            is_active |-> ValueOr(is_active, products[id].is_active)])

DeleteProduct(id) ==
    /\ id \in DOMAIN products
    /\ Delete(CollectProduct(id))

(* --------------------------- ShippingAddress -------------------------- *)
CreateShippingAddress(id) ==
    /\ id \notin addresses
    /\ addresses' = addresses \cup {id}
    /\ result' = Ok
    /\ UNCHANGED <<users, categories, products, orders, sellers,
                   sellerProducts, now>>

DeleteShippingAddress(id) ==
    /\ id \in addresses
    /\ Delete(CollectShippingAddress(id))

(* -------------------------------- Order ------------------------------- *)
SaveOrder(id, addr) ==
    LET add == id \notin DOMAIN orders
        err == OrderShippingAddressCheck(addr)
        old == IF add THEN now ELSE orders[id].order_date
    IN  IF err # Ok THEN Refuse(err)
        ELSE /\ orders' = Put(orders, id,
                    [shipping_address |-> addr,
                     order_date |-> AutoNowAdd(add, old, now)])
             /\ result' = Ok
             /\ UNCHANGED <<users, categories, products, addresses, sellers,
                            sellerProducts, now>>

CreateOrder(id, addr) ==
    /\ id \notin DOMAIN orders
    /\ SaveOrder(id, addr)

UpdateOrder(id, addr) ==
    /\ id \in DOMAIN orders
    /\ SaveOrder(id, addr)

DeleteOrder(id) ==
    /\ id \in DOMAIN orders
    /\ Delete(CollectOrder(id))

(* ------------------------------- Seller ------------------------------- *)
SaveSeller(id, is_active) ==
    /\ sellers' = Put(sellers, id, [is_active |-> is_active])
    /\ result' = Ok
    /\ UNCHANGED <<users, categories, products, orders, addresses,
                   sellerProducts, now>>

CreateSeller(id, is_active) ==
    /\ id \notin DOMAIN sellers
    /\ SaveSeller(id, ValueOr(is_active, SellerIsActiveDefault))

UpdateSeller(id, is_active) ==
    /\ id \in DOMAIN sellers
    /\ SaveSeller(id, ValueOr(is_active, sellers[id].is_active))

DeleteSeller(id) ==
    /\ id \in DOMAIN sellers
    /\ Delete(CollectSeller(id))

(* ---------------------------- SellerProduct --------------------------- *)
SaveSellerProduct(id, s, p) ==
    LET err == FirstError(SellerProductSellerCheck(s),
                          SellerProductProductCheck(p), Ok)
    IN  IF err # Ok THEN Refuse(err)
        ELSE /\ sellerProducts' =
                    Put(sellerProducts, id, [seller |-> s, product |-> p])
             /\ result' = Ok
             /\ UNCHANGED <<users, categories, products, orders, addresses,
                            sellers, now>>

CreateSellerProduct(id, s, p) ==
    /\ id \notin DOMAIN sellerProducts
    /\ SaveSellerProduct(id, s, p)

UpdateSellerProduct(id, s, p) ==
    /\ id \in DOMAIN sellerProducts
    /\ SaveSellerProduct(id, s, p)

DeleteSellerProduct(id) ==
    /\ id \in DOMAIN sellerProducts
    /\ Delete(CollectSellerProduct(id))

(* --------------------------- specifications -------------------------- *)
(* What a caller may pass for a foreign key: any primary key, of a row    *)
(* that exists or not, or nothing.                                        *)
Ref(ids) == ids \cup {NULL}

(* Optional arguments. *)
AuthorInputs == {{}, {"bob"}}
BoolInputs == {{}, {TRUE}, {FALSE}}

(* Prices a caller may pass: 0, 0.01, -0.01, 99.99, -99.99, 100.00,       *)
(* -100.00, 5, 100, 0.015, 0.025, 99.994, 99.995.                         *)
PriceInputs ==
    {[c |-> 0, e |-> 2], [c |-> 1, e |-> 2], [c |-> -1, e |-> 2],
     [c |-> 9999, e |-> 2], [c |-> -9999, e |-> 2],
     [c |-> 10000, e |-> 2], [c |-> -10000, e |-> 2],
     [c |-> 5, e |-> 0], [c |-> 100, e |-> 0],
     [c |-> 15, e |-> 3], [c |-> 25, e |-> 3],
     [c |-> 99994, e |-> 3], [c |-> 99995, e |-> 3]}

SomePrice == [c |-> 500, e |-> 2]

(* The relations of the schema: every table, every foreign key, with the  *)
(* other Product fields left to their defaults and the clock at rest.     *)
(* The fields and the clock vary in SpecFields below.                     *)
Next ==
    \/ \E u \in UserIds : CreateUser(u)
    \/ \E u \in UserIds : DeleteUser(u)
    \/ \E id \in CategoryIds, parent \in Ref(CategoryIds) :
            CreateCategory(id, parent)
    \/ \E id \in CategoryIds, parent \in Ref(CategoryIds) :
            UpdateCategory(id, parent)
    \/ \E id \in CategoryIds : DeleteCategory(id)
    \/ \E id \in ProductIds, cat \in Ref(CategoryIds), usr \in Ref(UserIds) :
            CreateProduct(id, cat, usr, {}, SomePrice, {}, {})
    \/ \E id \in ProductIds, cat \in Ref(CategoryIds), usr \in Ref(UserIds) :
            UpdateProduct(id, cat, usr, {}, {}, {}, {})
    \/ \E id \in ProductIds : DeleteProduct(id)
    \/ \E id \in AddressIds : CreateShippingAddress(id)
    \/ \E id \in AddressIds : DeleteShippingAddress(id)
    \/ \E id \in OrderIds, addr \in Ref(AddressIds) : CreateOrder(id, addr)
    \/ \E id \in OrderIds, addr \in Ref(AddressIds) : UpdateOrder(id, addr)
    \/ \E id \in OrderIds : DeleteOrder(id)
    \/ \E id \in SellerIds, a \in BoolInputs : CreateSeller(id, a)
    \/ \E id \in SellerIds, a \in BoolInputs : UpdateSeller(id, a)
    \/ \E id \in SellerIds : DeleteSeller(id)
    \/ \E id \in SellerProductIds, s \in Ref(SellerIds),
          p \in Ref(ProductIds) : CreateSellerProduct(id, s, p)
    \/ \E id \in SellerProductIds, s \in Ref(SellerIds),
          p \in Ref(ProductIds) : UpdateSellerProduct(id, s, p)
    \/ \E id \in SellerProductIds : DeleteSellerProduct(id)

Spec == Init /\ [][Next]_vars

(* The fields of Product and Order: every optional argument, every price, *)
(* the clock running, over MaxRow rows of each table they touch.          *)
RowIds == 1..MaxRow

(* The arguments of a Product save: every price with the optional fields  *)
(* left out, and every choice of optional fields with one price.          *)
CreateArgs ==
    {[cat |-> c, usr |-> u, author |-> {}, price |-> p,
      in_stock |-> {}, is_active |-> {}] :
        c \in RowIds, u \in RowIds, p \in PriceInputs}
    \cup
    {[cat |-> c, usr |-> u, author |-> a, price |-> SomePrice,
      in_stock |-> i, is_active |-> k] :
        c \in RowIds, u \in RowIds, a \in AuthorInputs,
        i \in BoolInputs, k \in BoolInputs}

UpdateArgs ==
    {[cat |-> c, usr |-> u, author |-> {}, price |-> {p},
      in_stock |-> {}, is_active |-> {}] :
        c \in RowIds, u \in RowIds, p \in PriceInputs}
    \cup
    {[cat |-> c, usr |-> u, author |-> a, price |-> {},
      in_stock |-> i, is_active |-> k] :
        c \in RowIds, u \in RowIds, a \in AuthorInputs,
        i \in BoolInputs, k \in BoolInputs}

CreateProductWith(id, a) ==
    CreateProduct(id, a.cat, a.usr, a.author, a.price, a.in_stock,
                  a.is_active)

UpdateProductWith(id, a) ==
    UpdateProduct(id, a.cat, a.usr, a.author, a.price, a.in_stock,
                  a.is_active)

NextFields ==
    \/ Tick
    \/ \E u \in RowIds : CreateUser(u)
    \/ \E id \in RowIds, parent \in RowIds : CreateCategory(id, parent)
    \/ \E id \in RowIds, a \in CreateArgs : CreateProductWith(id, a)
    \/ \E id \in RowIds, a \in UpdateArgs : UpdateProductWith(id, a)
    \/ \E id \in RowIds : DeleteProduct(id)
    \/ \E id \in RowIds : CreateShippingAddress(id)
    \/ \E id \in RowIds, addr \in RowIds : CreateOrder(id, addr)
    \/ \E id \in RowIds, addr \in RowIds : UpdateOrder(id, addr)
    \/ \E id \in RowIds : DeleteOrder(id)

SpecFields == Init /\ [][NextFields]_vars

(* Orders and their addresses alone, which no foreign key ties to the     *)
(* other tables, with the clock running.                                  *)
NextOrders ==
    \/ Tick
    \/ \E id \in AddressIds : CreateShippingAddress(id)
    \/ \E id \in AddressIds : DeleteShippingAddress(id)
    \/ \E id \in OrderIds, addr \in Ref(AddressIds) : CreateOrder(id, addr)
    \/ \E id \in OrderIds, addr \in Ref(AddressIds) : UpdateOrder(id, addr)
    \/ \E id \in OrderIds : DeleteOrder(id)

SpecOrders == Init /\ [][NextOrders]_vars

(* ======================= the claims, and their checks ================= *)
(* The rows of the store as nodes <<table, primary key>>, the rows a row  *)
(* references, and reachability along references.                         *)
Tables == {"users", "categories", "products", "orders", "addresses",
           "sellers", "sellerProducts"}

Ids(t) ==
    CASE t = "users" -> users
      [] t = "categories" -> DOMAIN categories
      [] t = "products" -> DOMAIN products
      [] t = "orders" -> DOMAIN orders
      [] t = "addresses" -> addresses
      [] t = "sellers" -> DOMAIN sellers
      [] t = "sellerProducts" -> DOMAIN sellerProducts

RowsNow == UNION {{<<t, i>> : i \in Ids(t)} : t \in Tables}

RowValue(n) ==
    CASE n[1] = "categories" -> <<categories[n[2]]>>
      [] n[1] = "products" -> <<products[n[2]]>>
      [] n[1] = "orders" -> <<orders[n[2]]>>
      [] n[1] = "sellers" -> <<sellers[n[2]]>>
      [] n[1] = "sellerProducts" -> <<sellerProducts[n[2]]>>
      [] OTHER -> <<>>

RefersTo(n) ==
    CASE n[1] = "categories" -> {<<"categories", categories[n[2]].parent>>}
      [] n[1] = "products" ->
            {<<"categories", products[n[2]].category>>,
             <<"users", products[n[2]].created_by>>}
      [] n[1] = "orders" -> {<<"addresses", orders[n[2]].shipping_address>>}
      [] n[1] = "sellerProducts" ->
            {<<"sellers", sellerProducts[n[2]].seller>>,
             <<"products", sellerProducts[n[2]].product>>}
      [] OTHER -> {}

(* n references t through at most k foreign keys, k >= 1. *)
RECURSIVE Reaches(_, _, _)
Reaches(n, t, k) ==
    /\ k > 0
    /\ n[2] \in Ids(n[1])
    /\ \E m \in RefersTo(n) : m = t \/ Reaches(m, t, k - 1)

References(n, t) == Reaches(n, t, Cardinality(RowsNow))

(* The step deletes row n. *)
DeleteOf(n) ==
    CASE n[1] = "users" -> DeleteUser(n[2])
      [] n[1] = "categories" -> DeleteCategory(n[2])
      [] n[1] = "products" -> DeleteProduct(n[2])
      [] n[1] = "orders" -> DeleteOrder(n[2])
      [] n[1] = "addresses" -> DeleteShippingAddress(n[2])
      [] n[1] = "sellers" -> DeleteSeller(n[2])
      [] n[1] = "sellerProducts" -> DeleteSellerProduct(n[2])

(* C1: deleting a Category deletes every Product whose category it was. *)
C1_CategoryDeleteCascadesToProducts ==
    [][\A c \in DOMAIN categories :
          DeleteCategory(c) =>
              \A p \in DOMAIN products :
                  products[p].category = c => p \notin DOMAIN products']_vars

(* A delete that removed a category and, with it, a product. *)
C1_Witness ==
    /\ result.deleted.categories >= 1
    /\ result.deleted.products >= 1

(* C2: deleting a Seller, or a Product, deletes every SellerProduct row   *)
(* of that seller, or of that product.                                    *)
C2_SellerProductRowsCascade ==
    [][/\ \A s \in DOMAIN sellers :
            DeleteSeller(s) =>
                \A sp \in DOMAIN sellerProducts :
                    sellerProducts[sp].seller = s
                        => sp \notin DOMAIN sellerProducts'
       /\ \A p \in DOMAIN products :
            DeleteProduct(p) =>
                \A sp \in DOMAIN sellerProducts :
                    sellerProducts[sp].product = p
                        => sp \notin DOMAIN sellerProducts']_vars

(* A delete of a product alone that took a SellerProduct row with it. *)
C2_Witness ==
    /\ result.deleted.products = 1
    /\ result.deleted.categories = 0
    /\ result.deleted.users = 0
    /\ result.deleted.sellers = 0
    /\ result.deleted.sellerProducts >= 1

(* C3: deleting a ShippingAddress deletes every Order that references it. *)
C3_AddressDeleteCascadesToOrders ==
    [][\A a \in addresses :
          DeleteShippingAddress(a) =>
              \A o \in DOMAIN orders :
                  orders[o].shipping_address = a
                      => o \notin DOMAIN orders']_vars

(* A delete that removed an address and, with it, an order. *)
C3_Witness ==
    /\ result.deleted.addresses >= 1
    /\ result.deleted.orders >= 1

(* C4 as stated: every Order references one ShippingAddress and no two    *)
(* Orders reference the same one.                                         *)
C4_OneToOne ==
    /\ \A o \in DOMAIN orders : orders[o].shipping_address \in addresses
    /\ \A o1 \in DOMAIN orders, o2 \in DOMAIN orders :
          orders[o1].shipping_address = orders[o2].shipping_address
              => o1 = o2

(* C4 as amended: the relationship is many-to-one. Every Order references *)
(* exactly one ShippingAddress, a row of the store.                       *)
C4_ManyToOne ==
    \A o \in DOMAIN orders :
        Cardinality({a \in addresses : a = orders[o].shipping_address}) = 1

(* Two orders on one address. *)
C4_Witness ==
    \E o1 \in DOMAIN orders, o2 \in DOMAIN orders :
        /\ o1 # o2
        /\ orders[o1].shipping_address = orders[o2].shipping_address

NoDanglingReference == \A n \in RowsNow : RefersTo(n) \subseteq RowsNow

C9_CascadeIsRecursive ==
    [][/\ NoDanglingReference'
       /\ \A n \in RowsNow :
            DeleteOf(n) =>
                \A m \in RowsNow :
                    (m = n \/ References(m, n)) => m \notin RowsNow']_vars

(* A delete of one category that took three categories (a chain of        *)
(* parents), a product and a SellerProduct row.                           *)
C9_Witness ==
    /\ result.deleted.categories >= 3
    /\ result.deleted.products >= 1
    /\ result.deleted.sellerProducts >= 1

(* C10: a delete leaves every row that does not reference the deleted row *)
(* in the store, unchanged: an Order's delete leaves its ShippingAddress, *)
(* a SellerProduct's its Seller and Product, a Product's its Category,    *)
(* its User and every Seller.                                             *)
C10_CascadeNeverTravelsBack ==
    [][/\ \A n \in RowsNow :
            DeleteOf(n) =>
                \A m \in RowsNow :
                    (m # n /\ ~References(m, n)) =>
                        /\ m \in RowsNow'
                        /\ RowValue(m)' = RowValue(m)
       /\ \A o \in DOMAIN orders :
            DeleteOrder(o) =>
                /\ orders' = Remove(orders, {o})
                /\ UNCHANGED <<users, categories, products, addresses,
                               sellers, sellerProducts>>
       /\ \A sp \in DOMAIN sellerProducts :
            DeleteSellerProduct(sp) =>
                /\ sellerProducts' = Remove(sellerProducts, {sp})
                /\ UNCHANGED <<users, categories, products, orders,
                               addresses, sellers>>
       /\ \A p \in DOMAIN products :
            DeleteProduct(p) =>
                UNCHANGED <<users, categories, sellers, orders,
                            addresses>>]_vars

(* An order alone was just deleted, and the address it had is one of the  *)
(* addresses that are still there.                                        *)
C10_Witness ==
    /\ result.deleted.orders = 1
    /\ result.deleted.addresses = 0
    /\ addresses # {}
    /\ DOMAIN orders # {}
    /\ DOMAIN products # {}
    /\ DOMAIN sellerProducts # {}

(* ------------------ the fields of Product and Order ------------------- *)
(* A price that is a whole number of hundredths, and that number. *)
InHundredths(v) ==
    \/ v.e <= 2
    \/ v.c % Pow10(v.e - 2) = 0

Hundredths(v) ==
    IF v.e <= 2 THEN v.c * Pow10(2 - v.e) ELSE v.c \div Pow10(v.e - 2)

(* Two decimals of the same value. *)
SameValue(a, b) == a.c * Pow10(b.e) = b.c * Pow10(a.e)

(* The step is a save, insert or update, of Product id with this price. *)
SavesPrice(id, price) ==
    \E cat \in RowIds, usr \in RowIds :
        \/ CreateProduct(id, cat, usr, {}, price, {}, {})
        \/ UpdateProduct(id, cat, usr, {}, {price}, {}, {})

(* A save of a price in hundredths from lo to hi is not refused for its   *)
(* price and, when it goes through, the row reads back that price; a save *)
(* of a price outside is refused and changes no row.                      *)
PriceRange(lo, hi) ==
    \A id \in RowIds, price \in PriceInputs :
        (InHundredths(price) /\ SavesPrice(id, price)) =>
            IF lo <= Hundredths(price) /\ Hundredths(price) <= hi
            THEN /\ result'.status # "InvalidOperation"
                 /\ result' = Ok =>
                        /\ id \in DOMAIN products'
                        /\ SameValue(PriceFromDb(products'[id].price), price)
            ELSE /\ result'.status # "ok"
                 /\ UNCHANGED store

(* C5 as stated: a price from 0.00 to 99.99 is stored and read back       *)
(* unchanged, a price outside that range is refused.                      *)
C5_RangeFromZero == [][PriceRange(0, 9999)]_vars

(* C5 as amended: a price from -99.99 to 99.99 is stored and read back    *)
(* unchanged, a price outside that range is refused.                      *)
C5_RangeOfFourDigits == [][PriceRange(-9999, 9999)]_vars

(* The store holds a product of price -99.99, and a save of it with a     *)
(* price out of range was just refused.                                   *)
C5_Witness ==
    /\ \E p \in DOMAIN products : products[p].price = -9999
    /\ result = DecimalError("store_product.price")

C8_ProductDefaults ==
    [][\A id \in RowIds, a \in CreateArgs :
          (CreateProductWith(id, a) /\ result' = Ok) =>
              /\ a.author = {} => products'[id].author = "admin"
              /\ a.in_stock = {} => products'[id].in_stock = TRUE
              /\ a.is_active = {} => products'[id].is_active = TRUE]_vars

(* A product inserted at the clock's present value, with the author no    *)
(* caller passes here and both flags true.                                *)
C8_Witness ==
    \E p \in DOMAIN products :
        /\ products[p].author = "admin"
        /\ products[p].in_stock
        /\ products[p].is_active
        /\ products[p].created = now
        /\ products[p].updated = now

====
